---- MODULE Spec2Model ----
(***************************************************************************)
(* Model of scripts/eval_model.py: the harness that compares the outputs   *)
(* of a PyTorch checkpoint and of its CoreML conversion over the images of *)
(* a directory (main, load_pytorch_model, load_coreml_model,               *)
(* run_comparison).                                                        *)
(*                                                                         *)
(* A path is the sequence of the character codes of a file name inside     *)
(* images_dir (the directory prefix is common to every path, so it does    *)
(* not take part in any comparison).  A backend output is a sequence of    *)
(* probability levels.  A mean is kept as the exact fraction num/den.      *)
(* Python's None is the empty sequence, an int n is <<n>>.                 *)
(***************************************************************************)
EXTENDS Integers, Sequences, FiniteSets

VARIABLES
    listing,           \* environment: the file names found in images_dir
    argv_max_samples,  \* command line: --max-samples (None when omitted)
    num_classes,       \* command line: --num-classes
    pc,                \* position in main / run_comparison
    max_samples,       \* the max_samples argument of run_comparison
    state,             \* load_pytorch_model's state ("" outside its frame)
    image_paths,       \* run_comparison's image_paths
    i,                 \* number of loop iterations started
    pt_out,            \* backend A output for the current image
    diffs,             \* run_comparison's diffs
    summary,           \* the printed summary (None until printed)
    error,             \* the exception that ended the run ("" if none)
    trace,             \* history: prints and external calls, in order
    identical          \* history: every compared pair of outputs was equal

vars == <<listing, argv_max_samples, num_classes, pc, max_samples, state,
          image_paths, i, pt_out, diffs, summary, error, trace,
          identical>>

----------------------------------------------------------------------------
(* Bounds of the model *)

MaxFiles == 3

MaxClasses == 2

MaxCap == 2

(* Program constant: the default of --max-samples *)
DefaultMaxSamples == 100

----------------------------------------------------------------------------
(* Values *)

None == <<>>

Some(n) == <<n>>

\* two probability levels stand for the sigmoid outputs in [0,1]
Probs == {0, 1}

Dot == 46

png == <<112, 110, 103>>

jpg == <<106, 112, 103>>

jpeg == <<106, 112, 101, 103>>

\* the order of the glob patterns in run_comparison
Patterns == <<png, jpg, jpeg>>

\* "a.jpg", "b.png", "c.jpeg", "a.jpeg", and "d.PNG" (upper-case extension)
a_jpg == <<97, 46, 106, 112, 103>>

b_png == <<98, 46, 112, 110, 103>>

c_jpeg == <<99, 46, 106, 112, 101, 103>>

a_jpeg == <<97, 46, 106, 112, 101, 103>>

d_PNG == <<100, 46, 80, 78, 71>>

Universe == {a_jpg, b_png, c_jpeg, a_jpeg, d_PNG}

Listings == {S \in SUBSET Universe : Cardinality(S) <= MaxFiles}

\* what torch.load may return: a state dict, a dict with a "state_dict" key,
\* a dict whose keys do not fit the model, anything that is not a dict
CheckpointKinds == {"state_dict", "wrapped", "bad_keys", "other"}

CapArgs == {None} \cup {Some(v) : v \in (0 - 1)..MaxCap}

Min(a, b) == IF a <= b THEN a ELSE b

Max(a, b) == IF a >= b THEN a ELSE b

Ev(op, path, x, y) == [op |-> op, path |-> path, x |-> x, y |-> y]

----------------------------------------------------------------------------
(* Pure functions of the program *)

\* str.__lt__: lexicographic order on code points
LexLess(a, b) ==
    \E k \in 1..(Min(Len(a), Len(b)) + 1) :
        /\ \A j \in 1..(k - 1) : a[j] = b[j]
        /\ \/ k <= Len(a) /\ k <= Len(b) /\ a[k] < b[k]
           \/ k = Len(a) + 1 /\ k <= Len(b)

\* fnmatch of a name against "*.<ext>" as glob applies it (case-sensitive,
\* and "*" does not match a leading dot)
Matches(name, ext) ==
    LET suffix == <<Dot>> \o ext
    IN  /\ Len(name) >= Len(suffix)
        /\ name[1] # Dot
        /\ SubSeq(name, Len(name) - Len(suffix) + 1, Len(name)) = suffix

\* glob.glob(os.path.join(images_dir, "*.<ext>")): the matching names in
\* whatever order the file system lists them
GlobResults(dir, ext) ==
    LET hits == {f \in dir : Matches(f, ext)}
        n == Cardinality(hits)
    IN  {s \in [1..n -> hits] : \A j, k \in 1..n : s[j] = s[k] => j = k}

Insert(x, s) ==
    LET k == Cardinality({j \in 1..Len(s) : ~LexLess(x, s[j])})
    IN  SubSeq(s, 1, k) \o <<x>> \o SubSeq(s, k + 1, Len(s))

RECURSIVE SortAscending(_)
SortAscending(s) ==
    IF s = <<>> THEN <<>>
    ELSE Insert(s[Len(s)], SortAscending(SubSeq(s, 1, Len(s) - 1)))

\* variant of Sorted: the glob order is kept
SortedMut(s) == s

\* sorted(image_paths)
Sorted(s) == SortAscending(s)

\* variant of NoImages: the empty check never fires
NoImagesMut(paths) == FALSE

\* len(image_paths) == 0
NoImages(paths) == Len(paths) = 0

\* variant of Truncate: the slice keeps one element too many
TruncateMut(paths, ms) ==
    IF ms # None /\ ms[1] > 0 THEN SubSeq(paths, 1, Min(ms[1] + 1, Len(paths)))
    ELSE paths

\* if max_samples is not None and max_samples > 0: image_paths[:max_samples]
Truncate(paths, ms) ==
    IF ms # None /\ ms[1] > 0 THEN SubSeq(paths, 1, Min(ms[1], Len(paths)))
    ELSE paths

\* argparse: --max-samples, type=int, default=100
ParseMaxSamples(arg) == IF arg = None THEN Some(DefaultMaxSamples) ELSE arg

\* variant of NormalizeMaxSamples: 0 is passed on unchanged
NormalizeMaxSamplesMut(ms) == ms

\* main: if args.max_samples == 0: args.max_samples = None
NormalizeMaxSamples(ms) == IF ms = Some(0) THEN None ELSE ms

\* variant of CheckpointError: the else branch does not raise
CheckpointErrorMut(kind) ==
    CASE kind = "bad_keys" -> "RuntimeError"
      [] OTHER -> ""

\* load_pytorch_model after torch.load: the exception raised for state ("" if
\* none); load_state_dict raises RuntimeError on keys that do not fit
CheckpointError(kind) ==
    CASE kind = "state_dict" -> ""
      [] kind = "wrapped" -> ""
      [] kind = "bad_keys" -> "RuntimeError"
      [] OTHER -> "RuntimeError"

\* variant of ShapeMismatch: only a shorter CoreML output is caught
ShapeMismatchMut(pt, cm) == Len(pt) > Len(cm)

\* pt_out.shape != cm_out.shape, both one-dimensional after reshape(-1)
ShapeMismatch(pt, cm) == Len(pt) # Len(cm)

Abs(x) == IF x < 0 THEN 0 - x ELSE x

\* variant of AbsDiff: np.abs is left out
AbsDiffNoAbs(pt, cm) == [c \in 1..Len(pt) |-> pt[c] - cm[c]]

\* variant of AbsDiff: the outputs are added
AbsDiffPlus(pt, cm) == [c \in 1..Len(pt) |-> Abs(pt[c] + cm[c])]

\* np.abs(pt_out - cm_out), applied to vectors of one shape
AbsDiff(pt, cm) == [c \in 1..Len(pt) |-> Abs(pt[c] - cm[c])]

\* variant of NoRows: the empty check never fires
NoRowsMut(rows) == FALSE

\* not diffs
NoRows(rows) == Len(rows) = 0

\* np.stack(diffs, axis=0) raises ValueError on an empty list and on rows of
\* different shapes
CanStack(rows) ==
    /\ Len(rows) > 0
    /\ \A r \in 1..Len(rows) : Len(rows[r]) = Len(rows[1])

RECURSIVE SumSeq(_)
SumSeq(s) == IF s = <<>> THEN 0 ELSE s[Len(s)] + SumSeq(SubSeq(s, 1, Len(s) - 1))

RECURSIVE MaxSeq(_)
MaxSeq(s) ==
    IF Len(s) = 1 THEN s[1]
    ELSE Max(s[Len(s)], MaxSeq(SubSeq(s, 1, Len(s) - 1)))

Column(m, c) == [r \in 1..Len(m) |-> m[r][c]]

RECURSIVE Flatten(_)
Flatten(m) == IF m = <<>> THEN <<>> ELSE Flatten(SubSeq(m, 1, Len(m) - 1)) \o m[Len(m)]

Mean(s) == [num |-> SumSeq(s), den |-> Len(s)]

\* diffs.mean(axis=0), diffs.max(axis=0), diffs.mean(), diffs.max()
MeanPerClass(m) == [c \in 1..Len(m[1]) |-> Mean(Column(m, c))]

MaxPerClass(m) == [c \in 1..Len(m[1]) |-> MaxSeq(Column(m, c))]

OverallMean(m) == Mean(Flatten(m))

OverallMax(m) == MaxSeq(Flatten(m))

\* the "=== Comparison Summary ===" block
Summary(paths, classes, m) ==
    [samples |-> Len(paths),
     classes |-> classes,
     overall_mean |-> OverallMean(m),
     overall_max |-> OverallMax(m),
     mean_per_class |-> MeanPerClass(m),
     max_per_class |-> MaxPerClass(m)]

----------------------------------------------------------------------------
(* The state machine *)

Init ==
    /\ listing \in Listings
    /\ argv_max_samples \in CapArgs
    /\ num_classes \in 1..MaxClasses
    /\ pc = "main"
    /\ max_samples = None
    /\ state = ""
    /\ image_paths = <<>>
    /\ i = 0
    /\ pt_out = <<>>
    /\ diffs = <<>>
    /\ summary = None
    /\ error = ""
    /\ trace = <<>>
    /\ identical = TRUE

Env == <<listing, argv_max_samples, num_classes>>

\* main: parse the arguments, map 0 to None, call run_comparison
Main ==
    /\ pc = "main"
    /\ max_samples' = NormalizeMaxSamples(ParseMaxSamples(argv_max_samples))
    /\ pc' = "load_pytorch"
    /\ UNCHANGED <<Env, state, image_paths, i, pt_out, diffs, summary,
                   error, trace, identical>>

\* load_pytorch_model: build the model, state = torch.load(checkpoint_path)
TorchLoad ==
    /\ pc = "load_pytorch"
    /\ \E found \in CheckpointKinds \cup {"missing"} :
        IF found = "missing"
        THEN /\ error' = "FileNotFoundError"
             /\ pc' = "raised"
             /\ UNCHANGED state
        ELSE /\ state' = found
             /\ pc' = "check_state"
             /\ UNCHANGED error
    /\ UNCHANGED <<Env, max_samples, image_paths, i, pt_out, diffs, summary,
                   trace, identical>>

\* load_pytorch_model: the isinstance checks, load_state_dict, return or raise
LoadPytorchModel ==
    /\ pc = "check_state"
    /\ error' = CheckpointError(state)
    /\ IF error' = ""
       THEN pc' = "load_coreml" /\ state' = ""
       ELSE pc' = "raised" /\ UNCHANGED state
    /\ UNCHANGED <<Env, max_samples, image_paths, i, pt_out, diffs, summary,
                   trace, identical>>

\* run_comparison: coreml_model = load_coreml_model(...)
LoadCoremlModel ==
    /\ pc = "load_coreml"
    /\ trace' = Append(trace, Ev("print_loading_coreml", <<>>, 0, 0))
    /\ \E loads \in BOOLEAN :
        /\ error' = IF loads THEN "" ELSE "CoremlLoadError"
        /\ pc' = IF loads THEN "discover" ELSE "raised"
    /\ UNCHANGED <<Env, max_samples, state, image_paths, i, pt_out, diffs,
                   summary, identical>>

\* run_comparison: glob the three patterns, sort, stop if nothing was found
Discover ==
    /\ pc = "discover"
    /\ \E g1 \in GlobResults(listing, Patterns[1]),
          g2 \in GlobResults(listing, Patterns[2]),
          g3 \in GlobResults(listing, Patterns[3]) :
        image_paths' = Sorted(g1 \o g2 \o g3)
    /\ IF NoImages(image_paths')
       THEN /\ trace' = trace \o <<Ev("glob", <<>>, 0, 0),
                                   Ev("print_no_images", <<>>, 0, 0)>>
            /\ pc' = "done"
       ELSE /\ trace' = Append(trace, Ev("glob", <<>>, 0, 0))
            /\ pc' = "truncate"
    /\ UNCHANGED <<Env, max_samples, state, i, pt_out, diffs, summary,
                   error, identical>>

\* run_comparison: apply the cap, diffs = [], print "Comparing on ..."
TruncateStep ==
    /\ pc = "truncate"
    /\ image_paths' = Truncate(image_paths, max_samples)
    /\ diffs' = <<>>
    /\ trace' = Append(trace, Ev("print_comparing", <<>>, Len(image_paths'), 0))
    /\ pc' = "loop"
    /\ UNCHANGED <<Env, max_samples, state, i, pt_out, summary, error,
                   identical>>

\* loop body: img = Image.open(img_path).convert("RGB")
OpenImage ==
    /\ pc = "loop"
    /\ i < Len(image_paths)
    /\ i' = i + 1
    /\ trace' = Append(trace, Ev("open", image_paths[i'], 0, 0))
    /\ \E decodes \in BOOLEAN :
        /\ error' = IF decodes THEN "" ELSE "ImageDecodeError"
        /\ pc' = IF decodes THEN "opened" ELSE "raised"
    /\ UNCHANGED <<Env, max_samples, state, image_paths, pt_out, diffs,
                   summary, identical>>

\* loop body: pt_out = torch_model(tensor).cpu().numpy().reshape(-1)
InferPytorch ==
    /\ pc = "opened"
    /\ \E v \in [1..num_classes -> Probs] : pt_out' = v
    /\ trace' = Append(trace, Ev("infer_pytorch", image_paths[i], Len(pt_out'), 0))
    /\ pc' = "inferred_pt"
    /\ UNCHANGED <<Env, max_samples, state, image_paths, i, diffs, summary,
                   error, identical>>

\* loop body: cm_out = np.array(coreml_model.predict(...)[out_key]).reshape(-1),
\* the shape check, then either the diagnostic and continue, or the row is
\* appended.  cm_out lives only inside this step; pt_out is dead after it and
\* is cleared.
InferCoremlCompare ==
    /\ pc = "inferred_pt"
    /\ \E n \in 1..MaxClasses : \E cm_out \in [1..n -> Probs] :
        LET called == Append(trace, Ev("infer_coreml", image_paths[i], Len(cm_out), 0))
        IN  /\ IF ShapeMismatch(pt_out, cm_out)
               THEN /\ trace' = Append(called, Ev("print_shape_mismatch", image_paths[i],
                                                  Len(pt_out), Len(cm_out)))
                    /\ diffs' = diffs
               ELSE /\ trace' = Append(called, Ev("append", image_paths[i],
                                                  Len(pt_out), Len(cm_out)))
                    /\ diffs' = Append(diffs, AbsDiff(pt_out, cm_out))
            /\ identical' = (identical /\ pt_out = cm_out)
    /\ pt_out' = <<>>
    /\ pc' = "loop"
    /\ UNCHANGED <<Env, max_samples, state, image_paths, i, summary, error>>

\* after the loop: the empty check, np.stack, the statistics and the summary
Aggregate ==
    /\ pc = "loop"
    /\ i = Len(image_paths)
    /\ IF NoRows(diffs)
       THEN /\ trace' = Append(trace, Ev("print_no_valid", <<>>, 0, 0))
            /\ UNCHANGED <<summary, error>>
            /\ pc' = "done"
       ELSE IF ~CanStack(diffs)
       THEN /\ error' = "ValueError"
            /\ UNCHANGED <<summary, trace>>
            /\ pc' = "raised"
       ELSE /\ summary' = Some(Summary(image_paths, num_classes, diffs))
            /\ trace' = Append(trace, Ev("print_summary", <<>>, Len(diffs), 0))
            /\ UNCHANGED error
            /\ pc' = "done"
    /\ UNCHANGED <<Env, max_samples, state, image_paths, i, pt_out, diffs,
                   identical>>

Next ==
    \/ Main
    \/ TorchLoad
    \/ LoadPytorchModel
    \/ LoadCoremlModel
    \/ Discover
    \/ TruncateStep
    \/ OpenImage
    \/ InferPytorch
    \/ InferCoremlCompare
    \/ Aggregate

Spec == Init /\ [][Next]_vars

----------------------------------------------------------------------------
(* Vocabulary of the properties *)

Range(s) == {s[k] : k \in 1..Len(s)}

\* the files of images_dir that one of *.png, *.jpg, *.jpeg matches
ImageNames == {f \in Universe : \E e \in 1..Len(Patterns) : Matches(f, Patterns[e])}

MatchingFiles == listing \cap ImageNames

EventsOf(op) == {k \in 1..Len(trace) : trace[k].op = op}

EventsFor(op, p) == {k \in EventsOf(op) : trace[k].path = p}

\* the lengths a backend returned for image p (one call, so one length)
ReturnedLens(op, p) == {trace[k].x : k \in EventsFor(op, p)}

InferenceEvents == EventsOf("infer_pytorch") \cup EventsOf("infer_coreml")

LoopEntered == EventsOf("print_comparing") # {}

\* image number k has been appended or skipped
Decided(k) == k < i \/ (k = i /\ pc \in {"loop", "done"})

DecidedEqual ==
    {k \in 1..Len(image_paths) :
        /\ Decided(k)
        /\ ReturnedLens("infer_pytorch", image_paths[k])
             = ReturnedLens("infer_coreml", image_paths[k])}

Ascending(s) == \A j, k \in 1..Len(s) : j < k => LexLess(s[j], s[k])

\* the n smallest matching files in lexicographic order
Smallest(n) ==
    {f \in MatchingFiles : Cardinality({g \in MatchingFiles : LexLess(g, f)}) < n}

CapIsPositive == max_samples # None /\ max_samples[1] > 0

----------------------------------------------------------------------------
(* C1: every decided image whose two outputs differ in length has exactly   *)
(* one "Shape mismatch" diagnostic (naming both lengths) and no row; every  *)
(* other decided image has one row and no diagnostic; the number of rows is *)
(* the number of decided images with equal lengths; a run that ends         *)
(* normally has decided every selected image; and the printed statistics    *)
(* are taken over exactly those rows.                                       *)
C1_MismatchSkipped ==
    /\ \A k \in 1..Len(image_paths) : Decided(k) =>
         \A p \in {image_paths[k]} :
         \A printed \in {EventsFor("print_shape_mismatch", p)} :
         \A appended \in {EventsFor("append", p)} :
             /\ Cardinality(EventsFor("infer_pytorch", p)) = 1
             /\ Cardinality(EventsFor("infer_coreml", p)) = 1
             /\ \A a \in ReturnedLens("infer_pytorch", p) :
                \A b \in ReturnedLens("infer_coreml", p) :
                    IF a # b
                    THEN /\ Cardinality(printed) = 1
                         /\ \A e \in printed : trace[e].x = a /\ trace[e].y = b
                         /\ appended = {}
                    ELSE /\ printed = {}
                         /\ Cardinality(appended) = 1
    /\ \A rows \in {Cardinality(DecidedEqual)} :
         /\ LoopEntered => Len(diffs) = rows
         /\ summary # None =>
              \A st \in {summary[1]} :
                  /\ st.overall_mean.den = rows * num_classes
                  /\ \A c \in 1..num_classes :
                       /\ st.mean_per_class[c].den = rows
                       /\ \E r \in 1..Len(diffs) : diffs[r][c] = st.max_per_class[c]
                       /\ \A r \in 1..Len(diffs) : diffs[r][c] <= st.max_per_class[c]
    /\ (pc = "done" /\ LoopEntered) =>
         \A k \in 1..Len(image_paths) : Decided(k)

\* a finished run whose first image was skipped, whose second gave a row
C1_Witness ==
    /\ pc = "done"
    /\ summary # None
    /\ Len(image_paths) >= 2
    /\ EventsFor("print_shape_mismatch", image_paths[1]) # {}
    /\ EventsFor("append", image_paths[2]) # {}

(* C2: with M discovered images and a positive cap N < M, the selected      *)
(* images are the N lexicographically smallest matching files in ascending  *)
(* order, no other file is ever opened or given to a backend, and a run     *)
(* that ends normally has opened exactly those N.                           *)
C2_FirstNProcessed ==
    (CapIsPositive /\ max_samples[1] < Cardinality(MatchingFiles)) =>
        \A firstN \in {Smallest(max_samples[1])} :
            /\ LoopEntered =>
                 /\ Len(image_paths) = max_samples[1]
                 /\ Ascending(image_paths)
                 /\ Range(image_paths) = firstN
            /\ \A k \in 1..Len(trace) :
                 trace[k].path # <<>> => trace[k].path \in firstN
            /\ \A j, k \in EventsOf("open") :
                 j < k => LexLess(trace[j].path, trace[k].path)
            /\ (pc = "done") =>
                 {trace[k].path : k \in EventsOf("open")} = firstN

\* three images found, a cap of two, the run finished
C2_Witness ==
    /\ pc = "done"
    /\ max_samples = Some(2)
    /\ Cardinality(MatchingFiles) = 3
    /\ Cardinality(EventsOf("open")) = 2

(* C3: when no file of the directory matches, the run never enters the      *)
(* loop: once discovery has run it has ended normally, having printed "No   *)
(* images found" and nothing after it, with no image opened, no inference   *)
(* on either backend and no summary.                                        *)
C3_NoImagesFound ==
    MatchingFiles = {} =>
        /\ pc \in {"main", "load_pytorch", "check_state", "load_coreml", "discover",
                  "done", "raised"}
        /\ pc = "raised" => error \in {"FileNotFoundError", "RuntimeError", "CoremlLoadError"}
        /\ pc = "done" =>
             /\ error = ""
             /\ trace[Len(trace)].op = "print_no_images"
             /\ Cardinality(EventsOf("print_no_images")) = 1
        /\ EventsOf("open") = {}
        /\ InferenceEvents = {}
        /\ EventsOf("print_summary") = {}
        /\ EventsOf("print_no_valid") = {}
        /\ EventsOf("print_comparing") = {}
        /\ summary = None

\* a directory holding only d.PNG, the run finished
C3_Witness ==
    /\ pc = "done"
    /\ listing = {d_PNG}
    /\ EventsOf("print_no_images") # {}

(* C4: when the loop has run over every selected image and no row was       *)
(* collected, the run ends normally with "No valid comparisons made" as its *)
(* last output, raises nothing, and prints no summary.                      *)
C4_NoValidComparisons ==
    (LoopEntered /\ i = Len(image_paths) /\ pc \in {"done", "raised"}
        /\ error # "ImageDecodeError" /\ diffs = <<>>) =>
        /\ pc = "done"
        /\ error = ""
        /\ summary = None
        /\ EventsOf("print_summary") = {}
        /\ Cardinality(EventsOf("print_no_valid")) = 1
        /\ trace[Len(trace)].op = "print_no_valid"

\* two images processed, both skipped for a shape mismatch
C4_Witness ==
    /\ pc = "done"
    /\ Len(image_paths) = 2
    /\ Cardinality(EventsOf("print_shape_mismatch")) = 2
    /\ diffs = <<>>

(* C5: every row of diffs has length num_classes and non-negative entries,  *)
(* and no row comes from a sample whose backend B output had another        *)
(* length.                                                                  *)
C5_RowShape ==
    /\ \A r \in 1..Len(diffs) :
         /\ Len(diffs[r]) = num_classes
         /\ \A c \in 1..Len(diffs[r]) : diffs[r][c] >= 0
    /\ \A k \in EventsOf("append") :
         ReturnedLens("infer_coreml", trace[k].path) = {num_classes}
    /\ Len(diffs) = Cardinality(EventsOf("append"))

\* a row with a non-zero entry beside a skipped sample, two classes
C5_Witness ==
    /\ num_classes = 2
    /\ EventsOf("print_shape_mismatch") # {}
    /\ \E r \in 1..Len(diffs) : diffs[r][1] > 0 /\ diffs[r][2] = 0

(* C6: if every compared pair of outputs was identical and the run ended    *)
(* normally after processing at least one image, the summary is printed and *)
(* its overall mean and max and every per-class mean and max are 0.         *)
C6_IdenticalGivesZero ==
    (pc = "done" /\ LoopEntered /\ identical) =>
        /\ summary # None
        /\ LET st == summary[1]
           IN  /\ st.overall_mean.num = 0
               /\ st.overall_mean.den > 0
               /\ st.overall_max = 0
               /\ Len(st.mean_per_class) = num_classes
               /\ Len(st.max_per_class) = num_classes
               /\ \A c \in 1..num_classes :
                    /\ st.mean_per_class[c].num = 0
                    /\ st.mean_per_class[c].den > 0
                    /\ st.max_per_class[c] = 0

\* a.jpg, b.png, c.jpeg, no cap given, identical outputs throughout
C6_Witness ==
    /\ pc = "done"
    /\ listing = {a_jpg, b_png, c_jpeg}
    /\ argv_max_samples = None
    /\ num_classes = 2
    /\ identical
    /\ summary # None
    /\ summary[1].samples = 3

(* C7: main passes None for --max-samples 0 and 100 when the flag is        *)
(* omitted, and any other value unchanged; the list is cut only for a cap   *)
(* that is not None and greater than 0, so for a cap of None, 0 or less the *)
(* selected list is the whole discovered list in ascending order, and a run *)
(* that ends normally opens all of it.                                      *)
C7_ZeroMeansAll ==
    /\ pc # "main" =>
         /\ argv_max_samples = None => max_samples = Some(DefaultMaxSamples)
         /\ argv_max_samples = Some(0) => max_samples = None
         /\ argv_max_samples \notin {None, Some(0)} => max_samples = argv_max_samples
    /\ (LoopEntered /\ ~CapIsPositive) =>
         /\ Range(image_paths) = MatchingFiles
         /\ Len(image_paths) = Cardinality(MatchingFiles)
         /\ Ascending(image_paths)
         /\ pc = "done" => {trace[k].path : k \in EventsOf("open")} = MatchingFiles
    /\ (LoopEntered /\ CapIsPositive) =>
         Len(image_paths) = Min(max_samples[1], Cardinality(MatchingFiles))

\* --max-samples 0 over three images: all three are opened
C7_Witness ==
    /\ pc = "done"
    /\ argv_max_samples = Some(0)
    /\ max_samples = None
    /\ state = ""
    /\ Cardinality(MatchingFiles) = 3
    /\ Cardinality(EventsOf("open")) = 3

(* C8: load_pytorch_model holding a state that is not a dict raises         *)
(* RuntimeError in its next step, leaving everything else untouched; and    *)
(* after any backend-load failure the run has ended, no step follows, and   *)
(* no image was discovered, opened or inferred and no report was printed    *)
(* (after a checkpoint failure nothing was printed at all).                 *)
C8_LoadFailureFatal ==
    /\ [][(pc = "check_state" /\ state = "other") =>
            /\ pc' = "raised"
            /\ error' = "RuntimeError"
            /\ UNCHANGED <<image_paths, diffs, summary, trace>>]_vars
    /\ [](error \in {"FileNotFoundError", "RuntimeError", "CoremlLoadError"} =>
            /\ pc = "raised"
            /\ error # "CoremlLoadError" => trace = <<>>
            /\ EventsOf("glob") = {}
            /\ EventsOf("print_no_images") = {}
            /\ EventsOf("open") = {}
            /\ InferenceEvents = {}
            /\ image_paths = <<>>
            /\ summary = None
            /\ ~ENABLED Next)

\* a non-dict checkpoint and a directory without images: the error is raised
C8_Witness ==
    /\ state = "other"
    /\ MatchingFiles = {}
    /\ pc = "raised"
    /\ error = "RuntimeError"
    /\ trace = <<>>

(* C9: the selected images are in ascending lexicographic order, and the    *)
(* events after "Comparing on ..." come in rounds of four, one round per    *)
(* image in that order: open, backend A, backend B, then the outcome (row   *)
(* appended or sample skipped), with nothing between them and only the      *)
(* final report after a completed round; so no call for an image precedes   *)
(* the outcome of the one before it.                                        *)
C9_SequentialOrder ==
    /\ LoopEntered => Ascending(image_paths)
    /\ ~LoopEntered => \A k \in 1..Len(trace) : trace[k].path = <<>>
    /\ \A c \in EventsOf("print_comparing") :
       \A k \in 1..Len(trace) :
       \A e \in {trace[k]} :
           IF k <= c THEN e.path = <<>>
           ELSE IF e.path = <<>>
           THEN /\ k = Len(trace)
                /\ (k - c - 1) % 4 = 0
                /\ e.op \in {"print_no_valid", "print_summary"}
           ELSE \A step \in {((k - c - 1) % 4) + 1} :
                \A round \in {((k - c - 1) \div 4) + 1} :
                    /\ round <= Len(image_paths)
                    /\ e.path = image_paths[round]
                    /\ step = 1 => e.op = "open"
                    /\ step = 2 => e.op = "infer_pytorch"
                    /\ step = 3 => e.op = "infer_coreml"
                    /\ step = 4 => e.op \in {"append", "print_shape_mismatch"}

\* three images, the second skipped, the run finished
C9_Witness ==
    /\ pc = "done"
    /\ Len(image_paths) = 3
    /\ EventsFor("print_shape_mismatch", image_paths[2]) # {}
    /\ EventsFor("append", image_paths[3]) # {}

(* C10: whenever the summary is printed, its "Number of samples" is the     *)
(* number of rows of the difference matrix the statistics were computed     *)
(* over.                                                                    *)
C10_SamplesIsRowCount ==
    summary # None => summary[1].samples = Len(diffs)

====
